---- MODULE Spec2Model ----
(***************************************************************************)
(* A model of astrodendro/components.py: the Structure class, the node of  *)
(* a dendrogram (merge tree).                                              *)
(*                                                                         *)
(* Every Structure object is modelled by its instance dictionary: a        *)
(* function from attribute names to values whose domain holds exactly the  *)
(* attributes that have been assigned.  Reading an attribute that is not   *)
(* in the dictionary is Python's AttributeError.  The heap is the sequence *)
(* of the objects allocated so far; an object is referred to by its        *)
(* position in the heap and None is 0.                                     *)
(*                                                                         *)
(* A method is an operator from the heap (and the arguments) to an         *)
(* outcome [exc, heap, ret]: the exception raised ("none" when the call    *)
(* returns), the heap the call leaves behind and the value returned.       *)
(***************************************************************************)
EXTENDS Integers, Sequences, FiniteSets, TLC

VARIABLES
    heap,   \* the Structure objects allocated so far, by object number
    last    \* the most recent call: operation, arguments, outcome

vars == <<heap, last>>

---------------------------------------------------------------------------
(* Bounds of the model *)

\* Structure objects allocated by the builder.
MaxNodes == 3
\* Pixels fed to the tree; the grid holds the coordinates 1..MaxPix.
MaxPix == 3
\* Pixel values are 1..MaxVal.
MaxVal == 2
\* Children handed to one constructor call.
MaxKids == 2
\* Depth of the Python call stack at which RecursionError is raised.
RecursionLimit == 3
\* Structure objects allocated by the builder of single-child chains.
MaxChain == 4

---------------------------------------------------------------------------
(* Python values *)

\* None, as an object reference (object numbers start at 1).
None == 0
\* None, as the value of the cached level (levels are >= 0).
NoLevel == -1

Coords == 1..MaxPix
Vals == 1..MaxVal

\* An instance dictionary with no attribute yet.
EmptyObj == [a \in {} |-> 0]

HasAttr(o, a) == a \in DOMAIN o

\* o.a = v
SetAttr(o, a, v) == [x \in DOMAIN o \cup {a} |-> IF x = a THEN v ELSE o[x]]

\* obj.a = v for object number n of heap h
Store(h, n, a, v) == [h EXCEPT ![n] = SetAttr(h[n], a, v)]

Ok(h, r) == [exc |-> "none", heap |-> h, ret |-> r]
Raise(h, e) == [exc |-> e, heap |-> h, ret |-> <<>>]

InSeq(x, s) == \E i \in 1..Len(s) : s[i] = x

\* min(values), max(values) of a non-empty sequence
SeqMin(s) == CHOOSE x \in {s[i] : i \in 1..Len(s)} : \A i \in 1..Len(s) : x <= s[i]
SeqMax(s) == CHOOSE x \in {s[i] : i \in 1..Len(s)} : \A i \in 1..Len(s) : x >= s[i]

\* The objects whose constructor returned: its last statements set the caches.
Returned(h) == {n \in 1..Len(h) : HasAttr(h[n], "_descendants")}

---------------------------------------------------------------------------
(* Structure.__init__(self, indices, values, children, idx)                *)
(*                                                                         *)
(* An argument that is either one pixel or a sequence of pixels is the     *)
(* record [scalar, seq]: np.isscalar(values) is values.scalar, and then    *)
(* values.seq holds the one value.                                         *)

\* Mutant: merge_level is recorded whether or not there are children.
init_merge_level_always(o, values, children) ==
    SetAttr(o, "merge_level", values)

\* if children: self.merge_level = values
init_merge_level(o, values, children) ==
    IF Len(children) > 0 THEN SetAttr(o, "merge_level", values) ELSE o

\* Mutant: an empty pixel sequence is accepted, with a range of (0, 0).
init_pixels_unchecked(o, indices, values) ==
    [exc |-> "none",
     obj |-> SetAttr(SetAttr(SetAttr(SetAttr(o,
                 "_indices", IF values.scalar THEN <<indices.seq[1]>> ELSE indices.seq),
                 "_values", values.seq),
                 IF values.scalar THEN "_vmin_sel" ELSE "_vmin",
                 IF Len(values.seq) = 0 THEN 0 ELSE SeqMin(values.seq)),
                 "_vmax", IF Len(values.seq) = 0 THEN 0 ELSE SeqMax(values.seq))]

\* The pixel attributes: [exc, obj].
init_pixels(o, indices, values) ==
    IF values.scalar
    THEN \* one pixel: the minimum goes to _vmin_sel
         [exc |-> "none",
          obj |-> SetAttr(SetAttr(SetAttr(SetAttr(o,
                      "_indices", <<indices.seq[1]>>),
                      "_values", <<values.seq[1]>>),
                      "_vmin_sel", values.seq[1]),
                      "_vmax", values.seq[1])]
    ELSE IF Len(values.seq) = 0
    THEN \* self._indices and self._values are set, then min() of an empty
         \* sequence raises
         [exc |-> "ValueError",
          obj |-> SetAttr(SetAttr(o, "_indices", indices.seq), "_values", values.seq)]
    ELSE [exc |-> "none",
          obj |-> SetAttr(SetAttr(SetAttr(SetAttr(o,
                      "_indices", indices.seq),
                      "_values", values.seq),
                      "_vmin", SeqMin(values.seq)),
                      "_vmax", SeqMax(values.seq))]

\* self.idx = idx and the three caches
init_caches(o, idx) ==
    SetAttr(SetAttr(SetAttr(SetAttr(o,
        "idx", idx), "_level", NoLevel), "_ancestor", None), "_descendants", None)

__init__(h, indices, values, children, idx) ==
    LET s  == Len(h) + 1
        o0 == init_merge_level(EmptyObj, values, children)
        \* self.parent = None; self.children = children
        o1 == SetAttr(SetAttr(o0, "parent", None), "children", children)
        \* for child in children: child.parent = self
        h1 == [n \in 1..s |->
                 IF n = s THEN o1
                 ELSE IF InSeq(n, children) THEN SetAttr(h[n], "parent", s)
                 ELSE h[n]]
        p  == init_pixels(o1, indices, values)
    IN  IF p.exc # "none"
        THEN Raise([h1 EXCEPT ![s] = p.obj], p.exc)
        ELSE Ok([h1 EXCEPT ![s] = init_caches(p.obj, idx)], <<s>>)

\* is_leaf
is_leaf(h, n) == Len(h[n].children) = 0

\* indices_self, values_self
indices_self(h, n) == h[n]._indices
values_self(h, n) == h[n]._values

---------------------------------------------------------------------------
(* indices and values: the pixels of a structure and its sub-structures *)

RECURSIVE indices(_, _)
RECURSIVE indices_children(_, _, _)

\* for child in self.children: sub_indices += child.indices   (from child i on)
indices_children(h, kids, i) ==
    IF i > Len(kids) THEN <<>>
    ELSE indices(h, kids[i]) \o indices_children(h, kids, i + 1)

indices(h, n) == indices_self(h, n) \o indices_children(h, h[n].children, 1)

RECURSIVE values(_, _, _)
RECURSIVE values_children(_, _, _, _)

\* for child in self.children: sub_values += child.values   (from child i on)
values_children(h, kids, i, d) ==
    IF i > Len(kids) THEN Ok(h, <<>>)
    ELSE LET first == values(h, kids[i], d + 1)
         IN  IF first.exc # "none" THEN first
             ELSE LET rest == values_children(h, kids, i + 1, d)
                  IN  IF rest.exc # "none" THEN rest
                      ELSE Ok(h, first.ret \o rest.ret)

\* The property body runs in a frame at depth d of the call stack.  Its
\* return statement reads self.values, the property itself, not _values.
values(h, n, d) ==
    IF d > RecursionLimit THEN Raise(h, "RecursionError")
    ELSE LET sub == values_children(h, h[n].children, 1, d)
         IN  IF sub.exc # "none" THEN sub
             ELSE LET own == values(h, n, d + 1)
                  IN  IF own.exc # "none" THEN own
                      ELSE Ok(h, own.ret \o sub.ret)

---------------------------------------------------------------------------
(* _add_pixel and _merge *)

\* self.indices and self.values are the properties above: each call builds a
\* new list, so append and extend change no attribute of any object.
_add_pixel(h, n, index, value) ==
    LET i == indices(h, n)          \* self.indices.append(index)
        v == values(h, n, 1)        \* self.values.append(value)
    IN  IF v.exc # "none" THEN v
        ELSE IF ~HasAttr(h[n], "vmin") \/ ~HasAttr(h[n], "vmax")
        THEN Raise(h, "AttributeError")
        ELSE LET lo == IF value < h[n].vmin THEN value ELSE h[n].vmin
                 hi == IF value > h[n].vmax THEN value ELSE h[n].vmax
             IN  Ok(Store(Store(h, n, "vmin", lo), n, "vmax", hi), <<>>)

_merge(h, n, structure) ==
    LET i == indices(h, n) \o indices(h, structure)   \* self.indices.extend(...)
        v == values(h, n, 1)                          \* self.values.extend(...)
    IN  IF v.exc # "none" THEN v
        ELSE LET w == values(h, structure, 1)
             IN  IF w.exc # "none" THEN w
                 ELSE IF ~HasAttr(h[structure], "vmin") \/ ~HasAttr(h[n], "vmin")
                      \/ ~HasAttr(h[structure], "vmax") \/ ~HasAttr(h[n], "vmax")
                 THEN Raise(h, "AttributeError")
                 ELSE LET lo == IF h[structure].vmin < h[n].vmin
                                THEN h[structure].vmin ELSE h[n].vmin
                          hi == IF h[structure].vmax > h[n].vmax
                                THEN h[structure].vmax ELSE h[n].vmax
                      IN  Ok(Store(Store(h, n, "vmin", lo), n, "vmax", hi), <<>>)

---------------------------------------------------------------------------
(* height *)

\* Reads self.vmax and self.vmin; the constructor sets _vmax and _vmin (or
\* _vmin_sel) and only line 125 or 136 would set vmax and vmin.
height(h, n) ==
    IF h[n].parent = None
    THEN IF ~HasAttr(h[n], "vmax") \/ ~HasAttr(h[n], "vmin")
         THEN Raise(h, "AttributeError")
         ELSE Ok(h, <<h[n].vmax - h[n].vmin>>)
    ELSE IF ~HasAttr(h[n], "vmax") \/ ~HasAttr(h[h[n].parent], "merge_level")
         THEN Raise(h, "AttributeError")
         ELSE IF ~h[h[n].parent].merge_level.scalar
         THEN Raise(h, "TypeError")
         ELSE Ok(h, <<h[n].vmax - h[h[n].parent].merge_level.seq[1]>>)

---------------------------------------------------------------------------
(* ancestor *)

\* Mutant: the seeded or cached ancestor is returned without climbing.
ancestor_no_climb(h, n) == h

RECURSIVE ancestor_loop(_, _)

\* while self._ancestor.parent: ...
ancestor_loop(h, n) ==
    LET a == h[n]._ancestor
    IN  IF h[a].parent # None
        THEN IF h[a]._ancestor # None
             THEN ancestor_loop(Store(h, n, "_ancestor", h[a]._ancestor), n)
             ELSE ancestor_loop(Store(h, n, "_ancestor", h[a].parent), n)
        ELSE h

\* Mutant: a cached ancestor is returned as it is, the loop runs only on the
\* first query.
ancestor_cache_final(h, n) ==
    IF h[n].parent = None THEN Ok(h, <<n>>)
    ELSE IF h[n]._ancestor # None THEN Ok(h, <<h[n]._ancestor>>)
    ELSE LET h2 == ancestor_loop(Store(h, n, "_ancestor", h[n].parent), n)
         IN  Ok(h2, <<h2[n]._ancestor>>)

\* Mutant: the root is found as in the code, and no cache is written.
ancestor_uncached(h, n) ==
    IF h[n].parent = None THEN Ok(h, <<n>>)
    ELSE LET h1 == IF h[n]._ancestor = None
                   THEN Store(h, n, "_ancestor", h[n].parent)
                   ELSE h
         IN  Ok(h, <<ancestor_loop(h1, n)[n]._ancestor>>)

ancestor(h, n) ==
    IF h[n].parent = None THEN Ok(h, <<n>>)
    ELSE LET h1 == IF h[n]._ancestor = None
                   THEN Store(h, n, "_ancestor", h[n].parent)
                   ELSE h
             h2 == ancestor_loop(h1, n)
         IN  Ok(h2, <<h2[n]._ancestor>>)

---------------------------------------------------------------------------
(* level *)

RECURSIVE level_walk(_, _, _)

\* while obj._level is None: obj = obj.parent; diff += 1
\* The outcome returns <<obj, diff>>.  Reading ._level of None, or of an
\* object whose constructor raised before setting it, is an AttributeError.
level_walk(h, obj, diff) ==
    IF obj = None \/ ~HasAttr(h[obj], "_level") THEN Raise(h, "AttributeError")
    ELSE IF h[obj]._level = NoLevel THEN level_walk(h, h[obj].parent, diff + 1)
    ELSE Ok(h, <<obj, diff>>)

\* Mutant: the test of line 214 is left out, the level is derived anew on
\* every query.
level_recomputed(h, n) ==
    IF h[n].parent = None
    THEN Ok(Store(h, n, "_level", 0), <<0>>)
    ELSE LET w == level_walk(h, h[n].parent, 1)
         IN  IF w.exc # "none" THEN w
             ELSE LET lv == h[w.ret[1]]._level + w.ret[2]
                  IN  Ok(Store(h, n, "_level", lv), <<lv>>)

\* Mutant: line 231 is left out, the parent is not back-filled.
level_no_backfill(h, n) ==
    IF h[n]._level # NoLevel THEN Ok(h, <<h[n]._level>>)
    ELSE IF h[n].parent = None
    THEN Ok(Store(h, n, "_level", 0), <<0>>)
    ELSE LET w == level_walk(h, h[n].parent, 1)
         IN  IF w.exc # "none" THEN w
             ELSE LET lv == h[w.ret[1]]._level + w.ret[2]
                  IN  Ok(Store(h, n, "_level", lv), <<lv>>)

level(h, n) ==
    IF h[n]._level # NoLevel THEN Ok(h, <<h[n]._level>>)
    ELSE IF h[n].parent = None
    THEN Ok(Store(h, n, "_level", 0), <<0>>)
    ELSE IF ~HasAttr(h[h[n].parent], "_level")
    THEN Raise(h, "AttributeError")
    ELSE IF h[h[n].parent]._level # NoLevel
    THEN Ok(Store(h, n, "_level", h[h[n].parent]._level + 1),
            <<h[h[n].parent]._level + 1>>)
    ELSE LET w == level_walk(h, h[n].parent, 1)
         IN  IF w.exc # "none" THEN w
             ELSE LET lv == h[w.ret[1]]._level + w.ret[2]
                      h1 == Store(h, n, "_level", lv)
                      h2 == Store(h1, h[n].parent, "_level", lv - 1)
                  IN  Ok(h2, <<lv>>)

---------------------------------------------------------------------------
(* fill_footprint(array, recursive)                                        *)
(*                                                                         *)
(* The array is a sequence over the grid coordinates; the outcome returns  *)
(* the array as the call leaves it, also when the call raises.             *)

Out(exc, h, array) == [exc |-> exc, heap |-> h, ret |-> array]

RECURSIVE fill_footprint(_, _, _, _)
RECURSIVE fill_children(_, _, _, _)
RECURSIVE fill_indices(_, _, _, _, _)

\* for child in self.children: child.fill_footprint(array)   (from child i on)
fill_children(h, array, kids, i) ==
    IF i > Len(kids) THEN Out("none", h, array)
    ELSE LET r == fill_footprint(h, array, kids[i], TRUE)
         IN  IF r.exc # "none" THEN r
             ELSE fill_children(r.heap, r.ret, kids, i + 1)

\* for index in self.indices: array[index] = self.level   (from position i on)
fill_indices(h, array, n, idxs, i) ==
    IF i > Len(idxs) THEN Out("none", h, array)
    ELSE LET r == level(h, n)
         IN  IF r.exc # "none" THEN Out(r.exc, r.heap, array)
             ELSE fill_indices(r.heap, [array EXCEPT ![idxs[i]] = r.ret[1]],
                               n, idxs, i + 1)

fill_footprint(h, array, n, recursive) ==
    LET c == IF recursive THEN fill_children(h, array, h[n].children, 1)
             ELSE Out("none", h, array)
    IN  IF c.exc # "none" THEN c
        ELSE fill_indices(c.heap, c.ret, n, indices(c.heap, n), 1)

---------------------------------------------------------------------------
(* get_npix and get_peak *)

get_npix(h, n, subtree) ==
    IF ~subtree
    THEN \* len(self.f)
         IF ~HasAttr(h[n], "f") THEN Raise(h, "AttributeError")
         ELSE Ok(h, <<Len(h[n].f)>>)
    ELSE IF HasAttr(h[n], "_npix_total") THEN Ok(h, <<h[n]._npix_total>>)
    ELSE LET v == values(h, n, 1)
         IN  IF v.exc # "none" THEN v
             ELSE \* sum over self.children_structures
                  IF ~HasAttr(h[n], "children_structures")
                  THEN Raise(Store(h, n, "_npix_total", Len(v.ret)), "AttributeError")
                  ELSE Ok(Store(h, n, "_npix_total", Len(v.ret)), <<Len(v.ret)>>)

\* self._peak = (self.indices[self.values.index(self.vmax)], self.vmax)
local_peak(h, n) ==
    LET i == indices(h, n)
        v == values(h, n, 1)
    IN  IF v.exc # "none" THEN v
        ELSE IF ~HasAttr(h[n], "vmax") THEN Raise(h, "AttributeError")
        ELSE IF ~InSeq(h[n].vmax, v.ret) THEN Raise(h, "ValueError")
        ELSE LET k == CHOOSE j \in 1..Len(v.ret) :
                          /\ v.ret[j] = h[n].vmax
                          /\ \A m \in 1..(j - 1) : v.ret[m] # h[n].vmax
             IN  Ok(Store(h, n, "_peak", <<i[k], h[n].vmax>>), <<i[k], h[n].vmax>>)

get_peak(h, n, subtree) ==
    LET p == IF HasAttr(h[n], "_peak") THEN Ok(h, h[n]._peak) ELSE local_peak(h, n)
    IN  IF p.exc # "none" THEN p
        ELSE IF ~subtree THEN p
        ELSE \* for node in self.children_structures
             IF ~HasAttr(p.heap[n], "children_structures")
             THEN Raise(p.heap, "AttributeError")
             ELSE p

---------------------------------------------------------------------------
(* newick *)

\* A string is the sequence of its pieces: literal text, "%i" or "%s" of an
\* integer, and "%.3f" of a number.
Text(s) == [text |-> s]
Decimal(i) == [decimal |-> i]
Fixed3(x) == [fixed |-> x, digits |-> 3]

RECURSIVE Join(_, _, _)
\* ','.join(items), from item i on
Join(items, sep, i) ==
    IF i > Len(items) THEN <<>>
    ELSE IF i = Len(items) THEN items[i]
    ELSE items[i] \o <<Text(sep)>> \o Join(items, sep, i + 1)

RECURSIVE newick(_, _)
RECURSIVE newick_items(_, _, _)

\* [child.newick for child in self.children]   (from child i on)
newick_items(h, kids, i) ==
    IF i > Len(kids) THEN Ok(h, <<>>)
    ELSE LET c == newick(h, kids[i])
         IN  IF c.exc # "none" THEN c
             ELSE LET rest == newick_items(h, kids, i + 1)
                  IN  IF rest.exc # "none" THEN rest
                      ELSE Ok(h, <<c.ret>> \o rest.ret)

\* The operands of % are evaluated before the formatting: self.idx, then
\* self.height.
newick(h, n) ==
    IF Len(h[n].children) > 0
    THEN LET items == newick_items(h, h[n].children, 1)
         IN  IF items.exc # "none" THEN items
             ELSE LET ht == height(h, n)
                  IN  IF ht.exc # "none" THEN ht
                      ELSE Ok(h, <<Text("(")>> \o Join(items.ret, ",", 1)
                                 \o <<Text(")"), Decimal(h[n].idx), Text(":"),
                                      Fixed3(ht.ret[1])>>)
    ELSE LET ht == height(h, n)
         IN  IF ht.exc # "none" THEN ht
             ELSE Ok(h, <<Decimal(h[n].idx), Text(":"), Fixed3(ht.ret[1])>>)

---------------------------------------------------------------------------
(* descendants *)

RECURSIVE descendants(_, _, _)

\* Line 252 reads self.descendants, the property being evaluated, not the
\* cache _descendants of line 62: the read runs the property again, at call
\* depth d + 1.  The property has no setter, so line 253 cannot assign.
descendants(h, n, d) ==
    IF d > RecursionLimit THEN Raise(h, "RecursionError")
    ELSE LET c == descendants(h, n, d + 1)     \* if self.descendants is None
         IN  IF c.exc # "none" THEN c
             ELSE IF c.ret = <<None>>
             THEN Raise(h, "AttributeError")   \* self.descendants = []
             ELSE descendants(h, n, d + 1)     \* return self.descendants

---------------------------------------------------------------------------
(* The builder's and the callers' inputs *)

\* The coordinates of the pixels owned so far.  The builder feeds every pixel
\* of the grid to the tree once, in the order 1, 2, ...
UsedCoords(h) ==
    UNION {{h[n]._indices[i] : i \in 1..Len(h[n]._indices)} : n \in Returned(h)}

FreshCoords(h, k) == [i \in 1..k |-> Cardinality(UsedCoords(h)) + i]

\* The (indices, values) arguments of a constructor call: one pixel, or a
\* sequence of k >= 0 pixels.
PixelArgs(h) ==
    LET free == MaxPix - Cardinality(UsedCoords(h))
    IN  {<<[scalar |-> TRUE, seq |-> FreshCoords(h, 1)],
           [scalar |-> TRUE, seq |-> <<v>>]>> : v \in IF free > 0 THEN Vals ELSE {}}
        \cup
        UNION {{<<[scalar |-> FALSE, seq |-> FreshCoords(h, k)],
                  [scalar |-> FALSE, seq |-> vs]>> : vs \in [1..k -> Vals]}
               : k \in 0..free}

\* The sequences of at most MaxKids distinct objects of S.
KidSeqs(S) ==
    UNION {{ks \in [1..k -> S] : \A i, j \in 1..k : ks[i] = ks[j] => i = j}
           : k \in 0..MaxKids}

\* The objects with no parent.
Roots(h) == {n \in Returned(h) : h[n].parent = None}

ZeroArray == [c \in Coords |-> 0]

Call(op, self, args, r) ==
    [op |-> op, self |-> self, args |-> args, exc |-> r.exc, ret |-> r.ret]

---------------------------------------------------------------------------
(* The state machine *)

Init ==
    /\ heap = <<>>
    /\ last = [op |-> "init", self |-> None, args |-> <<>>, exc |-> "none", ret |-> <<>>]

\* Structure(indices, values, children, idx).  When the constructor raises,
\* the new object stays in the heap if a child refers to it and is dropped
\* otherwise.
Create(ind, val, children) ==
    /\ Len(heap) < MaxNodes
    /\ LET r == __init__(heap, ind, val, children, Len(heap) + 1)
       IN  /\ heap' = IF r.exc # "none" /\ Len(children) = 0 THEN heap ELSE r.heap
           /\ last' = Call("create", Len(heap) + 1,
                           [indices |-> ind, values |-> val,
                            children |-> children], r)

AddPixel(n, index, value) ==
    LET r == _add_pixel(heap, n, index, value)
    IN  /\ heap' = r.heap
        /\ last' = Call("_add_pixel", n, [index |-> index, value |-> value], r)

Merge(n, structure) ==
    LET r == _merge(heap, n, structure)
    IN  /\ heap' = r.heap
        /\ last' = Call("_merge", n, [structure |-> structure], r)

Indices(n) ==
    /\ heap' = heap
    /\ last' = Call("indices", n, <<>>, Ok(heap, indices(heap, n)))

Values(n) ==
    LET r == values(heap, n, 1)
    IN  /\ heap' = r.heap
        /\ last' = Call("values", n, <<>>, r)

Height(n) ==
    LET r == height(heap, n)
    IN  /\ heap' = r.heap
        /\ last' = Call("height", n, <<>>, r)

Ancestor(n) ==
    LET r == ancestor(heap, n)
    IN  /\ heap' = r.heap
        /\ last' = Call("ancestor", n, <<>>, r)

Level(n) ==
    LET r == level(heap, n)
    IN  /\ heap' = r.heap
        /\ last' = Call("level", n, <<>>, r)

FillFootprint(n, recursive) ==
    LET r == fill_footprint(heap, ZeroArray, n, recursive)
    IN  /\ heap' = r.heap
        /\ last' = Call("fill_footprint", n, [recursive |-> recursive], r)

GetNpix(n, subtree) ==
    LET r == get_npix(heap, n, subtree)
    IN  /\ heap' = r.heap
        /\ last' = Call("get_npix", n, [subtree |-> subtree], r)

GetPeak(n, subtree) ==
    LET r == get_peak(heap, n, subtree)
    IN  /\ heap' = r.heap
        /\ last' = Call("get_peak", n, [subtree |-> subtree], r)

Newick(n) ==
    LET r == newick(heap, n)
    IN  /\ heap' = r.heap
        /\ last' = Call("newick", n, <<>>, r)

Descendants(n) ==
    LET r == descendants(heap, n, 1)
    IN  /\ heap' = r.heap
        /\ last' = Call("descendants", n, <<>>, r)

\* The construction operations on the existing objects.
Mutate ==
    \E n \in Returned(heap) :
        \/ \E p \in PixelArgs(heap) : p[1].scalar /\ AddPixel(n, p[1].seq[1], p[2].seq[1])
        \/ \E m \in Returned(heap) \ {n} : Merge(n, m)

\* The queries.
Query ==
    \E n \in Returned(heap) :
        \/ Indices(n)
        \/ Values(n)
        \/ Height(n)
        \/ Ancestor(n)
        \/ Level(n)
        \/ \E b \in BOOLEAN : FillFootprint(n, b)
        \/ \E b \in BOOLEAN : GetNpix(n, b)
        \/ \E b \in BOOLEAN : GetPeak(n, b)
        \/ Newick(n)
        \/ Descendants(n)

\* Structure(...) with any of the pixel arguments and children among S.
Build(S) ==
    \E p \in PixelArgs(heap), ks \in KidSeqs(S) : Create(p[1], p[2], ks)

\* Structure(...) with one pixel, as the dendrogram computation creates a
\* structure, or with no pixel at all, and children among S.
BuildOnePixel(S) ==
    \E p \in {q \in PixelArgs(heap) : q[2].scalar \/ Len(q[2].seq) = 0},
       ks \in KidSeqs(S) : Create(p[1], p[2], ks)

\* Every operation, on any existing objects.  The caches of the queries are
\* independent of one another, so the specifications further down take the
\* operations a group at a time.
Next ==
    \/ Build(Returned(heap))
    \/ Mutate
    \/ Query

Spec == Init /\ [][Next]_vars

\* The construction operations alone, with a builder that hands only current
\* roots to the constructor.
NextBuild ==
    \/ BuildOnePixel(Roots(heap))
    \/ Mutate

SpecBuild == Init /\ [][NextBuild]_vars

\* The same builder with every form of the pixel arguments, and the queries
\* that read the pixels.  None of them writes an attribute that another one
\* reads.
NextPixels ==
    \/ Build(Roots(heap))
    \/ Mutate
    \/ \E n \in Returned(heap) :
        \/ Indices(n)
        \/ Values(n)
        \/ Height(n)
        \/ \E b \in BOOLEAN : GetNpix(n, b)
        \/ \E b \in BOOLEAN : GetPeak(n, b)

SpecPixels == Init /\ [][NextPixels]_vars

\* The same builder and the ancestor queries: only ancestor reads or writes
\* _ancestor.
NextAncestor ==
    \/ BuildOnePixel(Roots(heap))
    \/ \E n \in Returned(heap) : Ancestor(n)

SpecAncestor == Init /\ [][NextAncestor]_vars

\* The same builder and the queries that read or write _level.
NextLevel ==
    \/ BuildOnePixel(Roots(heap))
    \/ \E n \in Returned(heap) :
        \/ Level(n)
        \/ \E b \in BOOLEAN : FillFootprint(n, b)

SpecLevel == Init /\ [][NextLevel]_vars

\* The same builder and the queries that traverse the tree below a node.
NextTraverse ==
    \/ BuildOnePixel(Roots(heap))
    \/ \E n \in Returned(heap) :
        \/ Newick(n)
        \/ Descendants(n)

SpecTraverse == Init /\ [][NextTraverse]_vars

\* The same builder and the level queries alone.
NextGrowth ==
    \/ BuildOnePixel(Roots(heap))
    \/ \E n \in Returned(heap) : Level(n)

SpecGrowth == Init /\ [][NextGrowth]_vars

\* Structure(index, value, children, idx) for one fresh pixel, while fewer
\* than MaxChain objects exist.
Grow(val, children) ==
    /\ Len(heap) < MaxChain
    /\ LET ind == [scalar |-> TRUE, seq |-> FreshCoords(heap, 1)]
           r == __init__(heap, ind, val, children, Len(heap) + 1)
       IN  /\ heap' = r.heap
           /\ last' = Call("create", Len(heap) + 1,
                           [indices |-> ind, values |-> val,
                            children |-> children], r)

\* The value of the pixel of the next structure of a chain: the values go
\* round Vals.  level reads no pixel value.
ChainValue(h) == [scalar |-> TRUE, seq |-> <<1 + (Len(h) % MaxVal)>>]

\* A builder of single-child chains: every new structure is a leaf or a
\* branch over one current root.  With it, the level queries.
NextChain ==
    \/ Grow(ChainValue(heap), <<>>)
    \/ \E r \in Roots(heap) : Grow(ChainValue(heap), <<r>>)
    \/ \E n \in Returned(heap) : Level(n)

SpecChain == Init /\ [][NextChain]_vars

\* The ancestor queries with the same builder and, beyond MaxNodes objects,
\* a builder that puts one more branch over a current root.
NextAncestorGrown ==
    \/ BuildOnePixel(Roots(heap))
    \/ \E r \in Roots(heap) : Grow(ChainValue(heap), <<r>>)
    \/ \E n \in Returned(heap) : Ancestor(n)

SpecAncestorGrown == Init /\ [][NextAncestorGrown]_vars

\* The construction operations with a caller that hands any existing objects
\* to the constructor: line 46 takes whatever it is given.
NextAnyChildren ==
    \/ BuildOnePixel(Returned(heap))
    \/ Mutate

SpecAnyChildren == Init /\ [][NextAnyChildren]_vars

---------------------------------------------------------------------------
(* Definitions the claims are stated with *)

RECURSIVE RootOf(_, _)
\* The recursive definition of the ancestor given in its docstring.
RootOf(h, n) == IF h[n].parent = None THEN n ELSE RootOf(h, h[n].parent)

RECURSIVE Depth(_, _)
\* The number of parent links from n to its root.
Depth(h, n) == IF h[n].parent = None THEN 0 ELSE 1 + Depth(h, h[n].parent)

\* Every constructor call returned, and parent is the inverse of children.
WellFormed(h) ==
    /\ Returned(h) = 1..Len(h)
    /\ \A n \in 1..Len(h) :
        /\ \A i \in 1..Len(h[n].children) : h[h[n].children[i]].parent = n
        /\ h[n].parent # None => InSeq(n, h[h[n].parent].children)

RECURSIVE Subtree(_, _)
\* n and its descendants.
Subtree(h, n) ==
    {n} \cup UNION {Subtree(h, h[n].children[i]) : i \in 1..Len(h[n].children)}

\* The pixels n owns, as (coordinate, value) pairs.
OwnPixels(h, n) == {<<h[n]._indices[i], h[n]._values[i]>> : i \in 1..Len(h[n]._indices)}

ConstructionOps == {"create", "_add_pixel", "_merge"}

---------------------------------------------------------------------------
(* C1: ancestor *)

\* C1: in every state, so after any earlier ancestor queries, ancestor(x)
\* returns the root the recursive definition gives, that root has no parent,
\* and ancestor of it is itself; the query that just returned did so.
C1_AncestorIsRoot ==
    /\ \A x \in Returned(heap) :
        LET r == ancestor(heap, x)
        IN  /\ r.exc = "none"
            /\ r.ret = <<RootOf(heap, x)>>
            /\ heap[r.ret[1]].parent = None
            /\ ancestor(r.heap, r.ret[1]).ret = r.ret
    /\ last.op = "ancestor"
         => last.exc = "none" /\ last.ret = <<RootOf(heap, last.self)>>

\* ancestor has just returned for a node two levels below its root whose
\* parent already holds a cached ancestor from an earlier query.
C1_Witness ==
    /\ last.op = "ancestor"
    /\ WellFormed(heap)
    /\ Depth(heap, last.self) >= 2
    /\ heap[heap[last.self].parent]._ancestor # None
    /\ last.ret = <<RootOf(heap, last.self)>>

---------------------------------------------------------------------------
(* C2, C7: level and fill_footprint *)

\* No cached level differs from the depth of its node.
CachedLevelsRight(h) ==
    \A n \in Returned(h) : h[n]._level \in {NoLevel, Depth(h, n)}

\* C2: a level query on a well-formed forest whose cached levels, if any, are
\* right returns, and returns the depth of the node (0 for a root, one more
\* than its parent otherwise).
C2_LevelNeverFails ==
    [][ (last'.op = "level" /\ WellFormed(heap) /\ CachedLevelsRight(heap))
          => last'.exc = "none" /\ last'.ret = <<Depth(heap, last'.self)>> ]_vars

\* C7: after fill_footprint(array, recursive=True) with a zero array on a
\* root of such a forest, every coordinate owned by a node of the tree holds
\* the level of the node that owns it and every other coordinate holds zero.
C7_FootprintHoldsOwnerLevel ==
    [][ (/\ last'.op = "fill_footprint"
         /\ last'.args.recursive
         /\ WellFormed(heap)
         /\ CachedLevelsRight(heap)
         /\ heap[last'.self].parent = None)
          => /\ last'.exc = "none"
             /\ \A c \in Coords :
                  IF \E m \in Subtree(heap, last'.self) : InSeq(c, heap[m]._indices)
                  THEN \A m \in Subtree(heap, last'.self) :
                          InSeq(c, heap[m]._indices) => last'.ret[c] = Depth(heap, m)
                  ELSE last'.ret[c] = 0 ]_vars

---------------------------------------------------------------------------
(* C3, C4, C5, C6: the queries on the pixels *)

\* C3: indices and values both return, with the same length, the number of
\* own pixels plus the lengths of the children's indices.
C3_IndicesValuesLengths ==
    (last.op \in {"indices", "values"} /\ WellFormed(heap))
        => /\ last.exc = "none"
           /\ Len(last.ret) = Len(indices(heap, last.self))
           /\ Len(last.ret) = Len(indices_self(heap, last.self))
                              + Len(indices_children(heap, heap[last.self].children, 1))

\* C4: height returns the maximum own value minus the parent's merge level,
\* or minus the minimum own value for a root.
C4_HeightIsDrop ==
    (/\ last.op = "height"
     /\ WellFormed(heap)
     /\ heap[last.self].parent # None => heap[heap[last.self].parent].merge_level.scalar)
        => /\ last.exc = "none"
           /\ last.ret = <<SeqMax(values_self(heap, last.self))
                           - (IF heap[last.self].parent # None
                              THEN heap[heap[last.self].parent].merge_level.seq[1]
                              ELSE SeqMin(values_self(heap, last.self)))>>

\* C5: get_npix(subtree=False) returns the number of own pixels, and
\* get_npix(subtree=True) on the single root of the forest returns the number
\* of pixels fed to the tree.
C5_NpixCountsPixels ==
    (last.op = "get_npix" /\ WellFormed(heap))
        => /\ last.exc = "none"
           /\ ~last.args.subtree => last.ret = <<Len(values_self(heap, last.self))>>
           /\ (last.args.subtree /\ Roots(heap) = {last.self})
                => last.ret = <<Cardinality(UsedCoords(heap))>>

\* The pixels get_peak looks at.
PeakPixels(h, n, subtree) ==
    IF subtree THEN UNION {OwnPixels(h, m) : m \in Subtree(h, n)} ELSE OwnPixels(h, n)

\* C6: get_peak returns a pixel of maximum value among the own pixels, or
\* among the pixels of the subtree; when an own pixel has that maximum, the
\* first such own pixel is returned.
C6_PeakIsMaximum ==
    (last.op = "get_peak" /\ WellFormed(heap))
        => /\ last.exc = "none"
           /\ <<last.ret[1], last.ret[2]>>
                \in PeakPixels(heap, last.self, last.args.subtree)
           /\ \A p \in PeakPixels(heap, last.self, last.args.subtree) :
                p[2] <= last.ret[2]
           /\ \A i \in 1..Len(values_self(heap, last.self)) :
                (/\ values_self(heap, last.self)[i] = last.ret[2]
                 /\ \A j \in 1..(i - 1) : values_self(heap, last.self)[j] < last.ret[2])
                    => last.ret[1] = indices_self(heap, last.self)[i]

---------------------------------------------------------------------------
(* C8, C9, C10: the constructor *)

\* C8: after every construction step each object has no children iff it is a
\* leaf iff it has no merge_level; the merge_level of an object with children
\* is the values argument of its constructor call and never changes.
C8_LeafIffNoMergeLevel ==
    [][ /\ \A n \in 1..Len(heap') :
            /\ (Len(heap'[n].children) = 0) <=> is_leaf(heap', n)
            /\ is_leaf(heap', n) <=> ~HasAttr(heap'[n], "merge_level")
        /\ \A n \in 1..Len(heap) :
            /\ heap'[n].children = heap[n].children
            /\ HasAttr(heap[n], "merge_level")
                 => heap'[n].merge_level = heap[n].merge_level
        /\ (last'.op = "create" /\ Len(heap') > Len(heap)
              /\ Len(last'.args.children) > 0)
             => heap'[Len(heap')].merge_level = last'.args.values
      ]_vars

\* A branch over two children exists beside a leaf, after a construction call.
C8_Witness ==
    /\ last.op \in ConstructionOps
    /\ \E n \in Returned(heap) : Len(heap[n].children) = 2 /\ heap[n].merge_level.scalar
    /\ \E n \in Returned(heap) : is_leaf(heap, n)

\* C9 as stated: a constructor call with no children fails and creates no
\* object.
C9_EmptyChildrenFails ==
    (last.op = "create" /\ Len(last.args.children) = 0)
        => last.exc # "none" /\ Len(heap) < last.self

\* C9 as the code has it: a constructor call with no children returns a leaf
\* with no merge_level whenever it is given at least one pixel, and raises
\* ValueError, creating nothing, when given an empty pixel sequence.
C9_EmptyChildrenMakesLeaf ==
    (last.op = "create" /\ Len(last.args.children) = 0)
        => IF last.args.values.scalar \/ Len(last.args.values.seq) > 0
           THEN /\ last.exc = "none"
                /\ last.ret = <<last.self>>
                /\ last.self \in Returned(heap)
                /\ is_leaf(heap, last.self)
                /\ ~HasAttr(heap[last.self], "merge_level")
           ELSE /\ last.exc = "ValueError"
                /\ Len(heap) < last.self

\* A constructor call with no children has just returned, beside a branch.
C9_Witness ==
    /\ last.op = "create"
    /\ Len(last.args.children) = 0
    /\ last.exc = "none"
    /\ \E n \in Returned(heap) : ~is_leaf(heap, n)

\* C10: a construction call that raises leaves every object that existed
\* before the call as it was.
C10_FailedCallChangesNothing ==
    [][ (last'.op \in ConstructionOps /\ last'.exc # "none")
          => \A n \in 1..Len(heap) : heap'[n] = heap[n] ]_vars

---------------------------------------------------------------------------
(* C11: the parent link *)

\* C11: no construction step changes the parent of an object that has one,
\* also when the object is passed to the constructor as a child again.
C11_ParentSetOnce ==
    [][ \A n \in 1..Len(heap) :
            heap[n].parent # None => heap'[n].parent = heap[n].parent ]_vars

---------------------------------------------------------------------------
(* C12, C13: _add_pixel and _merge *)

\* C12: _add_pixel(index, value) returns; afterwards the own pixels of the
\* object are the earlier ones with (index, value) appended, its value range
\* is the earlier range widened to hold value, and the own pixels of every
\* other object are as before.
C12_AddPixelAppends ==
    [][ last'.op = "_add_pixel"
          => LET n == last'.self
                 v == last'.args.value
                 old == values_self(heap, n)
             IN  /\ last'.exc = "none"
                 /\ indices_self(heap', n) = Append(indices_self(heap, n), last'.args.index)
                 /\ values_self(heap', n) = Append(old, v)
                 /\ HasAttr(heap'[n], "vmin") /\ HasAttr(heap'[n], "vmax")
                 /\ heap'[n].vmin = (IF v < SeqMin(old) THEN v ELSE SeqMin(old))
                 /\ heap'[n].vmax = (IF v > SeqMax(old) THEN v ELSE SeqMax(old))
                 /\ \A m \in Returned(heap) \ {n} :
                        /\ indices_self(heap', m) = indices_self(heap, m)
                        /\ values_self(heap', m) = values_self(heap, m) ]_vars

\* No coordinate is among the own pixels of two objects.
OneOwner(h) ==
    \A m, n \in Returned(h) :
        m # n => \A i \in 1..Len(h[m]._indices) : ~InSeq(h[m]._indices[i], h[n]._indices)

\* C13: _merge(structure) returns; afterwards the own pixels of the object
\* are the earlier ones followed by those of structure, its value range
\* covers both ranges, and no coordinate has two owners.
C13_MergeTransfersPixels ==
    [][ last'.op = "_merge"
          => LET n == last'.self
                 s == last'.args.structure
                 all == values_self(heap, n) \o values_self(heap, s)
             IN  /\ last'.exc = "none"
                 /\ indices_self(heap', n) = indices_self(heap, n) \o indices_self(heap, s)
                 /\ values_self(heap', n) = all
                 /\ HasAttr(heap'[n], "vmin") /\ HasAttr(heap'[n], "vmax")
                 /\ heap'[n].vmin = SeqMin(all)
                 /\ heap'[n].vmax = SeqMax(all)
                 /\ OneOwner(heap') ]_vars

---------------------------------------------------------------------------
(* C14: descendants *)

RECURSIVE ChildrenOf(_, _, _)
\* The children of the nodes of a layer, in order (from node i of it on).
ChildrenOf(h, layer, i) ==
    IF i > Len(layer) THEN <<>>
    ELSE h[layer[i]].children \o ChildrenOf(h, layer, i + 1)

RECURSIVE BreadthFirst(_, _)
\* The nodes below a layer, a layer at a time.
BreadthFirst(h, layer) ==
    IF Len(layer) = 0 THEN <<>>
    ELSE ChildrenOf(h, layer, 1) \o BreadthFirst(h, ChildrenOf(h, layer, 1))

\* C14: descendants returns, with the nodes below the node in breadth-first
\* order, each once and the node itself not among them, and a second call
\* returns the same sequence.
C14_DescendantsBreadthFirst ==
    (last.op = "descendants" /\ WellFormed(heap))
        => /\ last.exc = "none"
           /\ last.ret = BreadthFirst(heap, <<last.self>>)
           /\ {last.ret[i] : i \in 1..Len(last.ret)} = Subtree(heap, last.self) \ {last.self}
           /\ \A i, j \in 1..Len(last.ret) : last.ret[i] = last.ret[j] => i = j
           /\ descendants(heap, last.self, 1).exc = "none"
           /\ descendants(heap, last.self, 1).ret = last.ret

---------------------------------------------------------------------------
(* C15: the cached level while the tree grows *)

\* C15: a level cached for a node that has a parent, and equal to the depth
\* of the node, is equal to the depth of the node after every step, be it a
\* constructor call on current roots that returns or a level query.
C15_CachedLevelStaysDepth ==
    [][ \A n \in Returned(heap) :
            (/\ WellFormed(heap) /\ WellFormed(heap')
             /\ heap[n].parent # None
             /\ heap[n]._level # NoLevel
             /\ heap[n]._level = Depth(heap, n))
                => heap'[n]._level = Depth(heap', n) ]_vars

\* C15 as the code has it: a cached level is never changed afterwards.  A
\* query leaves the depth of every node as it is; a constructor call puts
\* the nodes of the trees it is given one link deeper and leaves their
\* cached levels as they were.
C15_CachedLevelNeverUpdated ==
    [][ \A n \in Returned(heap) :
            heap[n]._level # NoLevel
                => /\ heap'[n]._level = heap[n]._level
                   /\ Depth(heap', n) = Depth(heap, n)
                        + (IF /\ last'.op = "create"
                              /\ InSeq(RootOf(heap, n), last'.args.children)
                           THEN 1 ELSE 0) ]_vars

\* A constructor call has just returned a branch over the root of a node
\* that has a parent and the cached level 1: the node is now 2 links deep.
C15_Witness ==
    /\ last.op = "create"
    /\ last.exc = "none"
    /\ \E n \in Returned(heap) :
        /\ heap[n]._level = 1
        /\ Depth(heap, n) = 2
        /\ RootOf(heap, n) = last.self

---------------------------------------------------------------------------
(* C16: newick *)

\* The height of a node: its maximum own value less the merge level of its
\* parent, or less its minimum own value when it has no parent.
HeightOf(h, n) ==
    SeqMax(values_self(h, n))
    - (IF h[n].parent # None THEN h[h[n].parent].merge_level.seq[1]
       ELSE SeqMin(values_self(h, n)))

RECURSIVE NewickOf(_, _)
RECURSIVE NewickOfAll(_, _, _)

\* The renderings of the children from child i on, with commas between them.
NewickOfAll(h, kids, i) ==
    IF i > Len(kids) THEN <<>>
    ELSE NewickOf(h, kids[i])
         \o (IF i < Len(kids) THEN <<Text(",")>> ELSE <<>>)
         \o NewickOfAll(h, kids, i + 1)

\* The rendering of a node: id:height for a leaf, (children)id:height for a
\* branch.
NewickOf(h, n) ==
    (IF Len(h[n].children) = 0 THEN <<>>
     ELSE <<Text("(")>> \o NewickOfAll(h, h[n].children, 1) \o <<Text(")")>>)
    \o <<Decimal(h[n].idx), Text(":"), Fixed3(HeightOf(h, n))>>

\* C16: newick returns that rendering, in which the id of every node of the
\* subtree stands exactly once.
C16_NewickRendering ==
    (last.op = "newick" /\ WellFormed(heap))
        => /\ last.exc = "none"
           /\ last.ret = NewickOf(heap, last.self)
           /\ \A m \in Subtree(heap, last.self) :
                Cardinality({i \in 1..Len(last.ret) : last.ret[i] = Decimal(heap[m].idx)}) = 1

---------------------------------------------------------------------------
(* C17: what a level query caches *)

RECURSIVE Walked(_, _, _)
\* The nodes with no cached level from obj upwards, obj being d parent links
\* above the node queried, each with its distance from that node.
Walked(h, obj, d) ==
    IF obj = None \/ h[obj]._level # NoLevel THEN {}
    ELSE {<<obj, d>>} \cup Walked(h, h[obj].parent, d + 1)

\* C17 as stated: a level query that returns for a node with no cached level
\* leaves on every node it walked through the level returned less the
\* distance of that node from the node queried.
C17_ChainBackfilled ==
    [][ (/\ last'.op = "level"
         /\ last'.exc = "none"
         /\ heap[last'.self]._level = NoLevel)
          => \A w \in Walked(heap, heap[last'.self].parent, 1) :
                heap'[w[1]]._level = last'.ret[1] - w[2] ]_vars

\* C17 as the code has it: such a query caches the level it returns on the
\* node queried and, when it walked through any node, that level less one on
\* the parent; the cached level of every other node is as before, so a node
\* walked through above the parent still has none.
C17_OnlyParentBackfilled ==
    [][ (/\ last'.op = "level"
         /\ last'.exc = "none"
         /\ heap[last'.self]._level = NoLevel)
          => LET n == last'.self
                 p == heap[n].parent
                 walked == Walked(heap, p, 1)
             IN  /\ heap'[n]._level = last'.ret[1]
                 /\ walked # {} => heap'[p]._level = last'.ret[1] - 1
                 /\ \A m \in Returned(heap) \ {n} :
                        (m # p \/ walked = {}) => heap'[m]._level = heap[m]._level
                 /\ \A w \in walked : w[2] > 1 => heap'[w[1]]._level = NoLevel ]_vars

\* level has just returned 3 for the last node of a chain root, A, B, C:
\* B holds 2 and A, walked through, holds no level.
C17_Witness ==
    /\ last.op = "level"
    /\ last.exc = "none"
    /\ last.ret = <<3>>
    /\ Depth(heap, last.self) = 3
    /\ heap[heap[last.self].parent]._level = 2
    /\ heap[heap[heap[last.self].parent].parent]._level = NoLevel
    /\ heap[RootOf(heap, last.self)]._level = 0

---------------------------------------------------------------------------
(* C18, C19: what an ancestor query caches *)

RECURSIVE ProperAncestors(_, _)
\* The nodes on the parent chain of n, n itself not among them.
ProperAncestors(h, n) ==
    IF h[n].parent = None THEN {}
    ELSE {h[n].parent} \cup ProperAncestors(h, h[n].parent)

\* C18 as stated: after the first ancestor query on a node two or more links
\* below its root, every node between it and the root holds a cached
\* ancestor.
C18_IntermediatesCached ==
    [][ (/\ last'.op = "ancestor"
         /\ heap[last'.self]._ancestor = None
         /\ Depth(heap, last'.self) >= 2)
          => \A m \in ProperAncestors(heap, last'.self) \ {RootOf(heap, last'.self)} :
                heap'[m]._ancestor # None ]_vars

\* C18 as the code has it: such a query caches the root on the node queried
\* and leaves every other node, the nodes between it and the root among
\* them, as it was.
C18_OnlySelfCached ==
    [][ (/\ last'.op = "ancestor"
         /\ heap[last'.self]._ancestor = None
         /\ Depth(heap, last'.self) >= 2)
          => /\ heap'[last'.self]._ancestor = RootOf(heap, last'.self)
             /\ last'.ret = <<RootOf(heap, last'.self)>>
             /\ \A m \in (1..Len(heap)) \ {last'.self} : heap'[m] = heap[m] ]_vars

\* ancestor has just returned for a node two links below its root: the node
\* holds the root and its parent, passed through, holds no cached ancestor.
C18_Witness ==
    /\ last.op = "ancestor"
    /\ Depth(heap, last.self) = 2
    /\ heap[last.self]._ancestor = RootOf(heap, last.self)
    /\ heap[heap[last.self].parent]._ancestor = None

\* C19: every cached ancestor is a node on the parent chain of its node,
\* above it, and the ancestor query that just returned gave the root its
\* node has now, whatever roots earlier queries returned and cached.
C19_CachedAncestorOnChain ==
    /\ \A n \in Returned(heap) :
        heap[n]._ancestor # None => heap[n]._ancestor \in ProperAncestors(heap, n)
    /\ last.op = "ancestor"
         => /\ last.exc = "none"
            /\ Len(last.ret) = 1
            /\ last.ret[1] \in {last.self} \cup ProperAncestors(heap, last.self)
            /\ heap[last.ret[1]].parent = None

\* ancestor has just returned the root for a node whose parent holds, from a
\* query made before the tree grew, a former root as its cached ancestor.
C19_Witness ==
    /\ last.op = "ancestor"
    /\ last.exc = "none"
    /\ heap[last.self].parent # None
    /\ LET p == heap[last.self].parent
       IN  /\ p \in Returned(heap)
           /\ heap[p]._ancestor # None
           /\ heap[p]._ancestor # RootOf(heap, p)
           /\ last.ret = <<RootOf(heap, p)>>

====
